---- MODULE Spec2Model ----
(***************************************************************************)
(* Model of the university-leipzig-rag pipeline:                           *)
(*   document_processor.py  clean_text, segment_document,                 *)
(*                          vectorize_and_store, process_pdf,             *)
(*                          process_directory                             *)
(*   rag_engine.py          _query_ollama, retrieve_documents,            *)
(*                          process_query, check_system_status            *)
(*   main.py                process_documents, test_system, main          *)
(*   config.py              Config                                         *)
(*   web_scraper.py         collect_document_pages_recursively             *)
(* Text is modelled as a sequence of tokens; a token stands for a run of   *)
(* characters of one class (plain word characters, a heading keyword, a    *)
(* colon, a blank, a line break).                                          *)
(***************************************************************************)
EXTENDS Integers, Sequences, FiniteSets, TLC

VARIABLES
  chunk_size, chunk_overlap, \* config: documents.processing.*
  collection,      \* the records of the Chroma collection, oldest first
  next_uuid,       \* the next value uuid.uuid4() yields
  pc,              \* where process_directory stands
  pdf_files,       \* process_directory: the files found by rglob
  doc_i,           \* process_directory: position of the loop in pdf_files
  segments,        \* process_pdf: the chunks of the current file
  seg_i,           \* vectorize_and_store: position of the loop in segments
  total_segments,  \* process_directory: the running sum
  outcomes,        \* how embedding and writing went for segments[1..seg_i-1]
  doc_base,        \* Len(collection) when process_pdf was entered
  faults,          \* chunks of this run that were not written
  log,             \* per finished process_pdf call: what it returned and did
  seg_call,        \* SpecChunk: the segment_document call
  query_call,      \* SpecQuery: the last process_query call
  run_base,        \* Len(collection) when process_directory was entered
  exit_code,       \* main: the argument of sys.exit, -1 while it runs
  status_call,     \* SpecQuery: the last check_system_status call
  clean_call,      \* SpecClean: the clean_text call
  config_call,     \* SpecStartup: the construction of Config and the store
  crawl            \* SpecCrawl: one collect_document_pages_recursively crawl

vars == <<chunk_size, chunk_overlap, collection, next_uuid, pc, pdf_files,
          doc_i, segments, seg_i, total_segments, outcomes, doc_base, faults,
          log, seg_call, query_call, run_base, exit_code, status_call,
          clean_call, config_call, crawl>>

indexVars == <<collection, next_uuid, pc, pdf_files, doc_i, segments, seg_i,
               total_segments, outcomes, doc_base, faults, log, run_base>>

\* what an indexing step leaves alone besides the configuration
otherVars == <<seg_call, query_call, exit_code, status_call, clean_call,
               config_call, crawl>>

(***************************************************************************)
(* Bounds of the model.                                                    *)
(***************************************************************************)
\* upper limit of the configured chunk_size and chunk_overlap values tried
MaxChunkSize == 12
\* a page body has at most MinContentWords + ExtraWords words
ExtraWords == 2

\* a directory holds at most MaxBatch files
MaxBatch == 2
\* at most MaxFaults chunks of one process_directory run are not written
MaxFaults == 1
\* the indexing runs use the configurations with a stride of MinStride or
\* more words, and the degenerate ones of the largest chunk_size
MinStride == 10

\* a query asks for at most MaxResults passages
MaxResults == 3

\* the texts clean_text is applied to have at most MaxTextLen tokens
MaxTextLen == 5

\* document_processor.py:72,85  `len(...split()) > 10`
MinContentWords == 10

(***************************************************************************)
(* Tokens.                                                                 *)
(***************************************************************************)
Tok(kind, id) == [k |-> kind, i |-> id]
W(id) == Tok("w", id)          \* a run of plain word characters
KW == Tok("keyword", 0)        \* one of the heading keywords of the pattern
COLON == Tok("colon", 0)
SP == Tok("sp", 0)             \* a blank
NL == Tok("nl", 0)             \* a line break

\* \s of the regular expressions
IsSpace(t) == t.k \in {"sp", "nl"}

Min(a, b) == IF a < b THEN a ELSE b

(***************************************************************************)
(* str.strip(), str.split(), " ".join()                                    *)
(***************************************************************************)
RECURSIVE LStrip(_)
LStrip(s) ==
  IF s = <<>> THEN <<>>
  ELSE IF IsSpace(Head(s)) THEN LStrip(Tail(s)) ELSE s

RECURSIVE RStrip(_)
RStrip(s) ==
  IF s = <<>> THEN <<>>
  ELSE IF IsSpace(s[Len(s)]) THEN RStrip(SubSeq(s, 1, Len(s) - 1)) ELSE s

Strip(s) == RStrip(LStrip(s))

\* the first word of a text that starts with a non-blank token
RECURSIVE TakeWord(_)
TakeWord(s) ==
  IF s = <<>> \/ IsSpace(Head(s)) THEN <<>>
  ELSE <<Head(s)>> \o TakeWord(Tail(s))

\* str.split(): the maximal runs of non-blank tokens, in order; a word
\* starts at a non-blank token that stands first or behind a blank
Split(s) ==
  LET starts == SelectSeq([j \in 1..Len(s) |-> j],
                          LAMBDA j : /\ ~IsSpace(s[j])
                                     /\ (j = 1 \/ IsSpace(s[j - 1])))
  IN [k \in 1..Len(starts) |-> TakeWord(SubSeq(s, starts[k], Len(s)))]

\* " ".join(words)
RECURSIVE Join(_)
Join(words) ==
  IF words = <<>> THEN <<>>
  ELSE IF Len(words) = 1 THEN words[1]
  ELSE LET h == Len(words) \div 2 IN
       Join(SubSeq(words, 1, h)) \o <<SP>>
         \o Join(SubSeq(words, h + 1, Len(words)))

(***************************************************************************)
(* DocumentProcessor.clean_text                                            *)
(***************************************************************************)
\* re.sub(r'\s+', ' ', text): every maximal run of blanks becomes one blank
\* (the first token of a run stays, as a blank; the others go)
CollapseSpace(s) ==
  LET kept == SelectSeq([j \in 1..Len(s) |-> j],
                        LAMBDA j : \/ ~IsSpace(s[j])
                                   \/ j = 1
                                   \/ ~IsSpace(s[j - 1]))
  IN [k \in 1..Len(kept) |-> IF IsSpace(s[kept[k]]) THEN SP ELSE s[kept[k]]]

\* text.replace('\n', ' ')
ReplaceNewlines(s) == [j \in 1..Len(s) |-> IF s[j] = NL THEN SP ELSE s[j]]

\* the two replacements without the strip() behind them
CleanTextUnstripped(text) == ReplaceNewlines(CollapseSpace(text))

clean_text(text) == Strip(ReplaceNewlines(CollapseSpace(text)))

(***************************************************************************)
(* section_pattern (document_processor.py:56-59):                          *)
(*   (?m)^(?:\s*(keyword)[^:]*:)   with re.IGNORECASE                      *)
(* A match starts at a line start, skips blanks, needs a keyword there and *)
(* runs up to the first colon behind it; group 1 is the keyword alone.     *)
(***************************************************************************)
\* (?m)^ : the start of the string or the position behind a line break
IsLineStart(s, p) == p = 1 \/ s[p - 1] = NL

\* the first position >= p that holds no blank (Len(s) + 1 when there is none)
RECURSIVE SkipSpace(_, _)
SkipSpace(s, p) ==
  IF p > Len(s) THEN Len(s) + 1
  ELSE IF IsSpace(s[p]) THEN SkipSpace(s, p + 1) ELSE p

\* the first colon at or behind position p (0 when there is none)
RECURSIVE FirstColon(_, _)
FirstColon(s, p) ==
  IF p > Len(s) THEN 0
  ELSE IF s[p] = COLON THEN p ELSE FirstColon(s, p + 1)

\* the last position of the match that starts at p, 0 when nothing matches
MatchEnd(s, p) ==
  LET j == SkipSpace(s, p) IN
  IF j <= Len(s) /\ s[j] = KW THEN FirstColon(s, j + 1) ELSE 0

\* re.match(section_pattern, part)
re_match(part) == MatchEnd(part, 1) # 0

\* the leftmost match at or behind pos (0 when there is none)
FindMatch(s, pos) ==
  LET found == {p \in pos..Len(s) : IsLineStart(s, p) /\ MatchEnd(s, p) # 0}
  IN IF found = {} THEN 0
     ELSE CHOOSE p \in found : \A q \in found : p <= q

\* re.split(section_pattern, s): the text between the matches, each match
\* replaced by its group 1
RECURSIVE re_split_from(_, _)
re_split_from(s, pos) ==
  LET p == FindMatch(s, pos) IN
  IF p = 0 THEN <<SubSeq(s, pos, Len(s))>>
  ELSE <<SubSeq(s, pos, p - 1), <<s[SkipSpace(s, p)]>>>>
         \o re_split_from(s, MatchEnd(s, p) + 1)

re_split(s) == re_split_from(s, 1)

(***************************************************************************)
(* DocumentProcessor.segment_document, first loop (lines 61-90):           *)
(* the sections of the pages.                                              *)
(***************************************************************************)
Gesamtdokument == <<Tok("Gesamtdokument", 0)>>
Abschnitt == <<Tok("Abschnitt", 0)>>

Section(title, text, page_num) ==
  [title |-> title, text |-> text, page_number |-> page_num]

\* a threshold that lets a body of exactly MinContentWords words through
HasContentFromThreshold(text) == Len(Split(text)) >= MinContentWords

\* `len(....split()) > 10` (lines 72, 85)
HasContent(text) == Len(Split(text)) > MinContentWords

\* the loop over the pieces of one page, from piece k on
RECURSIVE PiecesLoop(_, _, _, _)
PiecesLoop(pieces, k, current_title, page_num) ==
  IF k > Len(pieces) THEN <<>>
  ELSE IF re_match(pieces[k])
       THEN PiecesLoop(pieces, k + 1, Strip(pieces[k]), page_num)
       ELSE LET cleaned_part == clean_text(pieces[k]) IN
            (IF HasContent(cleaned_part)
             THEN <<Section(IF current_title # <<>> THEN current_title
                            ELSE Abschnitt,
                            cleaned_part, page_num)>>
             ELSE <<>>)
            \o PiecesLoop(pieces, k + 1, current_title, page_num)

\* a first loop that keeps the page text as extracted
PageSegmentsUncleaned(page_data) ==
  LET cleaned == clean_text(page_data.text)
      pieces == re_split(cleaned)
  IN IF Len(pieces) < 2
     THEN IF HasContent(cleaned)
          THEN <<Section(Gesamtdokument, page_data.text,
                         page_data.page_number)>>
          ELSE <<>>
     ELSE PiecesLoop(pieces, 1, <<>>, page_data.page_number)

\* one iteration of the loop over the pages (lines 63-90)
PageSegments(page_data) ==
  LET cleaned == clean_text(page_data.text)
      pieces == re_split(cleaned)
  IN IF Len(pieces) < 2
     THEN IF HasContent(cleaned)
          THEN <<Section(Gesamtdokument, cleaned, page_data.page_number)>>
          ELSE <<>>
     ELSE PiecesLoop(pieces, 1, <<>>, page_data.page_number)

RECURSIVE AllSegments(_)
AllSegments(pages_data) ==
  IF pages_data = <<>> THEN <<>>
  ELSE PageSegments(Head(pages_data)) \o AllSegments(Tail(pages_data))

(***************************************************************************)
(* DocumentProcessor.segment_document, second loop (lines 92-111):         *)
(* the chunks of the sections.                                             *)
(***************************************************************************)
\* window starts one word further apart than the stride
Range0Wide(n, step) ==
  IF step > 0
  THEN [k \in 1..((n + step) \div (step + 1)) |-> (k - 1) * (step + 1)]
  ELSE <<>>

\* list(range(0, n, step)) for step # 0; range() raises ValueError for 0
Range0(n, step) ==
  IF step > 0
  THEN [k \in 1..((n + step - 1) \div step) |-> (k - 1) * step]
  ELSE <<>>

\* a window one word short: words[i:i + size - 1]
SliceShort(words, i, size) ==
  IF i + size - 1 <= i THEN <<>>
  ELSE SubSeq(words, i + 1, Min(i + size - 1, Len(words)))

\* words[i:i + size], i counted from 0
Slice(words, i, size) ==
  IF i + size <= i THEN <<>>
  ELSE SubSeq(words, i + 1, Min(i + size, Len(words)))

\* a counter that lives on across the calls of one run
ChunkCounterShared == total_segments

\* chunk_counter = 0 (line 94): a local of each segment_document call
ChunkCounterInit == 0

\* metadata that names the sentinel title for every chunk
ChunkMetadataUntitled(seg, index, filename, pdf_path) ==
  [title |-> Abschnitt, filename |-> filename,
   page_number |-> seg.page_number, chunk_index |-> index,
   pdf_path |-> pdf_path]

\* the metadata of a chunk (lines 103-109)
ChunkMetadata(seg, index, filename, pdf_path) ==
  [title |-> seg.title, filename |-> filename,
   page_number |-> seg.page_number, chunk_index |-> index,
   pdf_path |-> pdf_path]

\* a loop that stops before a window of fewer than `size` words
SectionChunksFullWindows(seg, counter, filename, pdf_path, size, overlap) ==
  LET words == Split(seg.text)
      starts == SelectSeq(Range0(Len(words), size - overlap),
                          LAMBDA i : i + size <= Len(words))
  IN [k \in 1..Len(starts) |->
        [text |-> Join(Slice(words, starts[k], size)),
         metadata |-> ChunkMetadata(seg, counter + k, filename, pdf_path)]]

\* the chunks of one section; counter is chunk_counter when the section starts
SectionChunks(seg, counter, filename, pdf_path, size, overlap) ==
  LET words == Split(seg.text)
      starts == Range0(Len(words), size - overlap)
  IN [k \in 1..Len(starts) |->
        [text |-> Join(Slice(words, starts[k], size)),
         metadata |-> ChunkMetadata(seg, counter + k, filename, pdf_path)]]

\* the outer loop (line 96): for every section the chunks its iteration
\* appends to final_segments
RECURSIVE ChunkLoop(_, _, _, _, _, _)
ChunkLoop(all_segments, counter, filename, pdf_path, size, overlap) ==
  IF all_segments = <<>> THEN <<>>
  ELSE LET here == SectionChunks(Head(all_segments), counter, filename,
                                 pdf_path, size, overlap)
       IN <<here>> \o ChunkLoop(Tail(all_segments), counter + Len(here),
                                filename, pdf_path, size, overlap)

RECURSIVE Flatten(_)
Flatten(ss) == IF ss = <<>> THEN <<>> ELSE Head(ss) \o Flatten(Tail(ss))

\* the whole call: what it raises ("none" when it returns), the list it
\* returns, that list grouped by the section each chunk was cut from, and
\* the sections its first loop collected
segment_document(pages_data, filename, pdf_path, size, overlap) ==
  LET all_segments == AllSegments(pages_data) IN
  IF all_segments # <<>> /\ size - overlap = 0
  THEN [raised |-> "ValueError", segments |-> <<>>, by_section |-> <<>>,
        all_segments |-> all_segments]
  ELSE LET groups == ChunkLoop(all_segments, ChunkCounterInit, filename,
                               pdf_path, size, overlap)
       IN [raised |-> "none", segments |-> Flatten(groups),
           by_section |-> groups, all_segments |-> all_segments]

(***************************************************************************)
(* DocumentProcessor.extract_text_from_pdf_with_pages                      *)
(* A file is its path, whether PdfReader and extract_text get through it,  *)
(* and the text of each of its pages (<<>> for a page without text).       *)
(***************************************************************************)
RECURSIVE PagesFrom(_, _)
PagesFrom(pages, page_num) ==
  IF page_num > Len(pages) THEN <<>>
  ELSE (IF pages[page_num] # <<>>
        THEN <<[text |-> pages[page_num], page_number |-> page_num]>>
        ELSE <<>>)
       \o PagesFrom(pages, page_num + 1)

extract_text_from_pdf_with_pages(pdf) ==
  IF pdf.readable THEN PagesFrom(pdf.pages, 1) ELSE <<>>

\* pdf_path.name
FileName(pdf_path) == pdf_path.name

(***************************************************************************)
(* The page texts and files the model draws its inputs from.               *)
(***************************************************************************)
\* n words w1 .. wn, one blank between two words
Body(n) == Join([j \in 1..n |-> <<W(j)>>])

\* n words, separated by line breaks and runs of blanks
RECURSIVE Ragged(_, _)
Ragged(j, n) ==
  IF j > n THEN <<NL>>
  ELSE <<W(j)>> \o (IF j % 2 = 0 THEN <<SP, SP>> ELSE <<NL, SP>>)
       \o Ragged(j + 1, n)

Layouts == {"plain", "ragged", "heading", "named_heading", "late_heading",
            "double_heading"}

PageText(layout, n) ==
  CASE layout = "plain" -> Body(n)
    [] layout = "ragged" -> <<SP, NL>> \o Ragged(1, n)
    [] layout = "heading" -> <<KW, COLON, SP>> \o Body(n)
    [] layout = "named_heading" ->
          <<KW, W(0), SP, W(0), COLON, NL>> \o Body(n)
    [] layout = "late_heading" -> <<W(0), NL, KW, COLON, SP>> \o Body(n)
    [] layout = "double_heading" -> <<KW, COLON, SP, KW, COLON, SP>> \o Body(n)

BodySizes == {0} \cup (MinContentWords..(MinContentWords + ExtraWords))

PageTexts == {PageText(l, n) : l \in Layouts, n \in BodySizes}

Path(dir, name) == [dir |-> dir, name |-> name]

(***************************************************************************)
(* Specification SpecChunk: segment_document applied to the pages of one   *)
(* file under every configured chunk_size and chunk_overlap.               *)
(***************************************************************************)
ChunkSizes == 1..MaxChunkSize
ChunkOverlaps == 0..(MaxChunkSize + 1)

SegInputs ==
  {<<p>> : p \in PageTexts} \cup
  {<<p, q>> : p \in PageTexts, q \in {PageText("plain", n) : n \in BodySizes}}

NoSegCall == [pages_data |-> <<>>, done |-> FALSE, raised |-> "none",
              segments |-> <<>>, by_section |-> <<>>, all_segments |-> <<>>]

NoQueryCall == [called |-> FALSE]

NoStatusCall == [called |-> FALSE]

NoCleanCall == [text |-> <<>>, done |-> FALSE, cleaned |-> <<>>,
                again |-> <<>>]

NoConfigCall == [called |-> FALSE]

NoCrawl == [pc |-> "idle"]

\* no command has run and no other call was made
CliIdle ==
  /\ exit_code = -1
  /\ status_call = NoStatusCall
  /\ clean_call = NoCleanCall
  /\ config_call = NoConfigCall
  /\ crawl = NoCrawl

IndexIdle ==
  /\ pc = "idle"
  /\ pdf_files = <<>>
  /\ doc_i = 0
  /\ segments = <<>>
  /\ seg_i = 0
  /\ total_segments = 0
  /\ outcomes = <<>>
  /\ doc_base = 0
  /\ faults = 0
  /\ log = <<>>

\* the words w(a) .. w(b), one blank between two words
Words(a, b) == Join([j \in 1..(b - a + 1) |-> <<W(a + j - 1)>>])

\* a one-page document of two headed sections with 90 and 40 body words,
\* each heading on a line of its own start, and the configuration it is
\* cut under
ScenarioA ==
  [chunk_size |-> 50, chunk_overlap |-> 10,
   first |-> Words(1, 90), second |-> Words(91, 130),
   pages |-> << <<KW, COLON, SP>> \o Words(1, 90)
                \o <<NL, KW, COLON, SP>> \o Words(91, 130) >>]

InitChunk ==
  /\ IndexIdle
  /\ collection = <<>>
  /\ next_uuid = 1
  /\ run_base = 0
  /\ query_call = NoQueryCall
  /\ CliIdle
  /\ \/ /\ chunk_size \in ChunkSizes
        /\ chunk_overlap \in ChunkOverlaps
        /\ \E pages \in SegInputs :
             seg_call = [NoSegCall EXCEPT !.pages_data = PagesFrom(pages, 1)]
     \/ /\ chunk_size = ScenarioA.chunk_size
        /\ chunk_overlap = ScenarioA.chunk_overlap
        /\ seg_call = [NoSegCall EXCEPT
                         !.pages_data = PagesFrom(ScenarioA.pages, 1)]

SegmentDocument ==
  /\ ~seg_call.done
  /\ LET r == segment_document(seg_call.pages_data, "a.pdf",
                               Path("root", "a.pdf"),
                               chunk_size, chunk_overlap)
     IN seg_call' = [seg_call EXCEPT !.done = TRUE, !.raised = r.raised,
                                     !.segments = r.segments,
                                     !.by_section = r.by_section,
                                     !.all_segments = r.all_segments]
  /\ UNCHANGED <<chunk_size, chunk_overlap, indexVars, query_call, exit_code,
                 status_call, clean_call, config_call, crawl>>

NextChunk == SegmentDocument

SpecChunk == InitChunk /\ [][NextChunk]_vars

(***************************************************************************)
(* Properties of the chunker (SpecChunk).                                  *)
(***************************************************************************)
\* a configuration with a stride of at least one word
ValidConfig == chunk_size >= 1 /\ chunk_overlap >= 0 /\ chunk_overlap < chunk_size

\* s without its first n elements (s[n:])
Drop(s, n) == SubSeq(s, Min(n, Len(s)) + 1, Len(s))

\* the word windows of the chunks from chunk k on, the first `overlap` words
\* removed from every chunk but the first
RECURSIVE Reconstruct(_, _, _)
Reconstruct(chunks, k, overlap) ==
  IF k > Len(chunks) THEN <<>>
  ELSE (IF k = 1 THEN Split(chunks[k].text)
        ELSE Drop(Split(chunks[k].text), overlap))
       \o Reconstruct(chunks, k + 1, overlap)

\* C4: under a valid configuration the word windows of the chunks of every
\* section, concatenated in order with the overlapping words removed from
\* every chunk after the first, are the words of the section.
ChunkReconstruction ==
  (seg_call.done /\ ValidConfig) =>
     LET all_segments == AllSegments(seg_call.pages_data) IN
     /\ seg_call.raised = "none"
     /\ Len(seg_call.by_section) = Len(all_segments)
     /\ \A k \in 1..Len(all_segments) :
          Reconstruct(seg_call.by_section[k], 1, chunk_overlap)
            = Split(all_segments[k].text)

\* a section cut into three or more chunks with an overlap of two or more
\* words, the last chunk a partial window
ChunkReconstructionWitness ==
  /\ seg_call.done /\ ValidConfig /\ chunk_overlap >= 2
  /\ \E k \in 1..Len(seg_call.by_section) :
       LET chunks == seg_call.by_section[k] IN
       /\ Len(chunks) >= 3
       /\ Len(Split(chunks[Len(chunks)].text)) < chunk_size

\* C6: with chunk_overlap >= chunk_size the call raises and returns nothing.
DegenerateConfigFailsFast ==
  (seg_call.done /\ chunk_overlap >= chunk_size) =>
     (seg_call.raised # "none" /\ seg_call.segments = <<>>)

(***************************************************************************)
(* DocumentProcessor.vectorize_and_store, one iteration of its loop.       *)
(* The embedding model and the collection are outside the program: how a   *)
(* chunk fares with them is an input of the iteration.                     *)
(*   ok            vector_norm > 0 and collection.add succeeded            *)
(*   zero_norm     vector_norm == 0                                        *)
(*   embed_raises  self.nlp(...) raised                                    *)
(*   add_raises    vector_norm > 0 and collection.add raised               *)
(***************************************************************************)
Outcomes == {"ok", "zero_norm", "embed_raises", "add_raises"}

Record(id, seg) == [id |-> id, document |-> seg.text, metadata |-> seg.metadata]

\* a loop that adds whatever the model embedded, zero vector or not
StoresUnchecked(outcome) == outcome \in {"ok", "zero_norm"}

\* whether the iteration leaves a record in the collection (lines 118-125)
Stores(outcome) == outcome = "ok"

\* whether the iteration reached uuid.uuid4() (line 119)
DrawsUuid(outcome) == outcome \in {"ok", "add_raises"}

\* a store keyed by the content of a chunk: a chunk it holds is not added
AddSegmentByContent(coll, uuid, seg, outcome) ==
  IF Stores(outcome) /\ \A j \in 1..Len(coll) :
                          coll[j].document # seg.text
                          \/ coll[j].metadata # seg.metadata
  THEN Append(coll, Record(uuid, seg)) ELSE coll

\* collection.add under a fresh uuid4 (lines 119-125)
AddSegment(coll, uuid, seg, outcome) ==
  IF Stores(outcome) THEN Append(coll, Record(uuid, seg)) ELSE coll

\* vectorize_and_store(segs) when every chunk is embedded and written
RECURSIVE StoreAll(_, _)
StoreAll(coll, segs) ==
  IF segs = <<>> THEN coll
  ELSE StoreAll(AddSegment(coll, Len(coll) + 1, Head(segs), "ok"), Tail(segs))

(***************************************************************************)
(* DocumentProcessor.process_pdf and process_directory                     *)
(***************************************************************************)
\* an extraction failure that leaves extract_text_from_pdf_with_pages
UncaughtExtraction(pdf) == ~pdf.readable

\* the try/except of lines 35-48 turns every failure into the result []
ExtractionPropagates(pdf) == FALSE

\* the value process_pdf returns behind vectorize_and_store (line 140)
ProcessPdfResult(segs, written) == Len(segs)

\* the files of the directory tree
BadPdf == [path |-> Path("root", "bad.pdf"), readable |-> FALSE, pages |-> <<>>]
ScanPdf == [path |-> Path("root", "scan.pdf"), readable |-> TRUE,
            pages |-> << <<>> >>]
ShortPdf == [path |-> Path("root", "short.pdf"), readable |-> TRUE,
             pages |-> <<PageText("plain", MinContentWords)>>]
OnePagePdf == [path |-> Path("root", "a.pdf"), readable |-> TRUE,
               pages |-> <<PageText("plain", MinContentWords + 1)>>]
TwoPagePdf == [path |-> Path("sub", "a.pdf"), readable |-> TRUE,
               pages |-> <<PageText("heading", MinContentWords + ExtraWords),
                           <<>>,
                           PageText("ragged", MinContentWords + 1)>>]

Files == {BadPdf, ScanPdf, ShortPdf, OnePagePdf, TwoPagePdf}

\* list(directory.rglob("*.pdf")): distinct files in some order
RECURSIVE Listings(_)
Listings(n) ==
  IF n = 0 THEN {<<>>}
  ELSE LET shorter == Listings(n - 1) IN
       shorter \cup {Append(b, f) : b \in {x \in shorter : Len(x) = n - 1},
                                    f \in Files}

Distinct(b) == \A j, k \in 1..Len(b) : j # k => b[j] # b[k]

Batches == {b \in Listings(MaxBatch) : Distinct(b)}

\* the collection an earlier run over batch left, every chunk written
RECURSIVE StoreAfter(_, _, _, _)
StoreAfter(batch, coll, size, overlap) ==
  IF batch = <<>> THEN coll
  ELSE LET pdf == Head(batch)
           pages_data == extract_text_from_pdf_with_pages(pdf)
           r == segment_document(pages_data, FileName(pdf.path), pdf.path,
                                 size, overlap)
       IN IF pages_data = <<>>
          THEN StoreAfter(Tail(batch), coll, size, overlap)
          ELSE IF r.raised # "none" THEN coll
          ELSE StoreAfter(Tail(batch), StoreAll(coll, r.segments),
                          size, overlap)

IndexConfigs ==
  {cfg \in ChunkSizes \X ChunkOverlaps :
     \/ cfg[1] - cfg[2] >= MinStride
     \/ cfg[1] - cfg[2] <= 0 /\ cfg[1] = MaxChunkSize}

PriorStores(size, overlap) ==
  {StoreAfter(b, <<>>, size, overlap) : b \in {<<>>} \cup {<<f>> : f \in Files}}

Init ==
  /\ \E cfg \in IndexConfigs : chunk_size = cfg[1] /\ chunk_overlap = cfg[2]
  /\ IndexIdle
  /\ collection \in PriorStores(chunk_size, chunk_overlap)
  /\ next_uuid = Len(collection) + 1
  /\ run_base = Len(collection)
  /\ seg_call = NoSegCall
  /\ query_call = NoQueryCall
  /\ CliIdle

\* process_directory, lines 144-145
ProcessDirectory ==
  /\ pc = "idle"
  /\ \E batch \in Batches : pdf_files' = batch
  /\ total_segments' = 0
  /\ doc_i' = 1
  /\ run_base' = Len(collection)
  /\ pc' = "loop"
  /\ UNCHANGED <<chunk_size, chunk_overlap, collection, next_uuid, segments,
                 seg_i, outcomes, doc_base, faults, log, otherVars>>

LogEntry(pdf, extracted, returned, nsegments, attempted, skipped, written) ==
  [pdf |-> pdf, extracted |-> extracted, returned |-> returned,
   nsegments |-> nsegments, attempted |-> attempted, skipped |-> skipped,
   written |-> written]

\* process_pdf up to the call of vectorize_and_store (lines 131-137)
ProcessPdf ==
  /\ pc = "loop"
  /\ doc_i <= Len(pdf_files)
  /\ LET pdf == pdf_files[doc_i]
         pages_data == extract_text_from_pdf_with_pages(pdf)
         r == segment_document(pages_data, FileName(pdf.path), pdf.path,
                               chunk_size, chunk_overlap)
     IN IF ExtractionPropagates(pdf)
        THEN /\ pc' = "raised"
             /\ UNCHANGED <<doc_i, segments, seg_i, outcomes, doc_base,
                            total_segments, log>>
        ELSE IF pages_data = <<>>
        THEN /\ total_segments' = total_segments + 0
             /\ log' = Append(log, LogEntry(pdf, FALSE, 0, 0, 0, 0, 0))
             /\ doc_i' = doc_i + 1
             /\ UNCHANGED <<pc, segments, seg_i, outcomes, doc_base>>
        ELSE IF r.raised # "none"
        THEN /\ pc' = "raised"
             /\ UNCHANGED <<doc_i, segments, seg_i, outcomes, doc_base,
                            total_segments, log>>
        ELSE /\ segments' = r.segments
             /\ seg_i' = 1
             /\ outcomes' = <<>>
             /\ doc_base' = Len(collection)
             /\ pc' = "vectorize"
             /\ UNCHANGED <<doc_i, total_segments, log>>
  /\ UNCHANGED <<chunk_size, chunk_overlap, collection, next_uuid, pdf_files,
                 faults, run_base,
                 otherVars>>

\* one iteration of the loop of vectorize_and_store (lines 115-127)
VectorizeSegment ==
  /\ pc = "vectorize"
  /\ seg_i <= Len(segments)
  /\ \E outcome \in Outcomes :
       /\ outcome # "ok" => faults < MaxFaults
       /\ collection' = AddSegment(collection, next_uuid, segments[seg_i],
                                   outcome)
       /\ next_uuid' = IF DrawsUuid(outcome) THEN next_uuid + 1 ELSE next_uuid
       /\ faults' = IF outcome # "ok" THEN faults + 1 ELSE faults
       /\ outcomes' = Append(outcomes, outcome)
  /\ seg_i' = seg_i + 1
  /\ UNCHANGED <<chunk_size, chunk_overlap, pc, pdf_files, doc_i, segments,
                 total_segments, doc_base, log, run_base,
                 otherVars>>

\* the end of process_pdf (lines 139-140) and `total_segments +=` (line 147)
ReturnFromPdf ==
  /\ pc = "vectorize"
  /\ seg_i > Len(segments)
  /\ LET written == Len(collection) - doc_base
         returned == ProcessPdfResult(segments, written)
     IN /\ total_segments' = total_segments + returned
        /\ log' = Append(log, LogEntry(pdf_files[doc_i], TRUE, returned,
                                       Len(segments), Len(outcomes),
                                       Cardinality({j \in 1..Len(outcomes) :
                                                      outcomes[j] # "ok"}),
                                       written))
  /\ doc_i' = doc_i + 1
  /\ pc' = "loop"
  /\ UNCHANGED <<chunk_size, chunk_overlap, collection, next_uuid, pdf_files,
                 segments, seg_i, outcomes, doc_base, faults, run_base,
                 otherVars>>

\* the end of process_directory (lines 148-149): it returns total_segments
ReturnFromDirectory ==
  /\ pc = "loop"
  /\ doc_i > Len(pdf_files)
  /\ pc' = "done"
  /\ UNCHANGED <<chunk_size, chunk_overlap, collection, next_uuid, pdf_files,
                 doc_i, segments, seg_i, total_segments, outcomes, doc_base,
                 faults, log, run_base,
                 otherVars>>

\* main.py:39  `if processed_count > 0`
ProcessSucceeded(processed_count) == processed_count > 0

\* main.py:141,144  sys.exit(0 if success else 1)
ExitCode(success) == IF success THEN 0 ELSE 1

\* process_documents finds no directory (main.py:25-29) or the construction
\* of the DocumentProcessor raises (main.py:37,46-49): it returns False
\* before any file is read
ProcessDocumentsRefused ==
  /\ pc = "idle"
  /\ exit_code = -1
  /\ pc' = "refused"
  /\ exit_code' = ExitCode(FALSE)
  /\ UNCHANGED <<chunk_size, chunk_overlap, collection, next_uuid, pdf_files,
                 doc_i, segments, seg_i, total_segments, outcomes, doc_base,
                 faults, log, run_base, seg_call, query_call, status_call,
                 clean_call, config_call, crawl>>

\* process_documents behind process_directory (main.py:38-49) and the exit
\* of `process` (main.py:139-141): an exception of the run is caught and
\* gives False; so does an empty file list (main.py:31-34)
ExitProcess ==
  /\ pc \in {"done", "raised"}
  /\ exit_code = -1
  /\ exit_code' = ExitCode(pc = "done" /\ pdf_files # <<>>
                             /\ ProcessSucceeded(total_segments))
  /\ UNCHANGED <<chunk_size, chunk_overlap, indexVars, seg_call, query_call,
                 status_call, clean_call, config_call, crawl>>

Next ==
  \/ ProcessDirectory
  \/ ProcessPdf
  \/ VectorizeSegment
  \/ ReturnFromPdf
  \/ ReturnFromDirectory
  \/ ProcessDocumentsRefused
  \/ ExitProcess

Spec == Init /\ [][Next]_vars

(***************************************************************************)
(* Properties of the indexing run (Spec).                                  *)
(***************************************************************************)
\* C5: the chunks segment_document returned for the current file carry the
\* chunk_index values 1, 2, 3, ... in order, whatever was indexed before.
ChunkIndexMonotonic ==
  \A j \in 1..Len(segments) : segments[j].metadata.chunk_index = j

\* a file with chunks of two pages, processed behind a file that had chunks
ChunkIndexMonotonicWitness ==
  /\ pc = "vectorize"
  /\ doc_i >= 2
  /\ total_segments > 0
  /\ Len(segments) >= 3
  /\ segments[1].metadata.page_number
       # segments[Len(segments)].metadata.page_number

RECURSIVE SumWritten(_)
SumWritten(entries) ==
  IF entries = <<>> THEN 0
  ELSE Head(entries).written + SumWritten(Tail(entries))

\* C8: process_pdf returns the number of chunks it wrote to the collection,
\* and process_directory returns the sum over its files.
ReturnsChunksWritten ==
  /\ \A k \in 1..Len(log) : log[k].returned = log[k].written
  /\ pc = "done" => total_segments = SumWritten(log)

\* C9: a file whose extraction fails or yields no page contributes 0 chunks
\* and never ends the run; the loop goes through every file of the directory
\* in order, and every chunk of every other file is embedded and, unless its
\* own embedding or write fails, written.
ExtractionFailureIsLocal ==
  /\ pc \in {"loop", "done"} => Len(log) = doc_i - 1
  /\ \A k \in 1..Len(log) :
       /\ log[k].pdf = pdf_files[k]
       /\ log[k].extracted
            = (extract_text_from_pdf_with_pages(pdf_files[k]) # <<>>)
       /\ ~log[k].extracted =>
            log[k].returned = 0 /\ log[k].written = 0
       /\ log[k].extracted =>
            /\ log[k].nsegments
                 = Len(segment_document(
                         extract_text_from_pdf_with_pages(pdf_files[k]),
                         FileName(pdf_files[k].path), pdf_files[k].path,
                         chunk_size, chunk_overlap).segments)
            /\ log[k].attempted = log[k].nsegments
            /\ log[k].written = log[k].nsegments - log[k].skipped
  /\ pc = "raised" =>
       extract_text_from_pdf_with_pages(pdf_files[doc_i]) # <<>>
  /\ pc = "done" => Len(log) = Len(pdf_files)

\* a finished run in which a file behind an unreadable one was written
ExtractionFailureIsLocalWitness ==
  /\ pc = "done"
  /\ \E j, k \in 1..Len(log) :
       /\ j < k
       /\ ~pdf_files[j].readable
       /\ log[j].returned = 0
       /\ log[k].written >= 1

\* the chunks among segs[j..] that were embedded and written
RECURSIVE OkSegments(_, _, _)
OkSegments(segs, outs, j) ==
  IF j > Len(outs) THEN <<>>
  ELSE (IF outs[j] = "ok" THEN <<segs[j]>> ELSE <<>>)
       \o OkSegments(segs, outs, j + 1)

\* C10: while the chunks of a file are embedded and stored, the records the
\* file has added are exactly its chunks so far whose embedding was not
\* degenerate and whose embedding and write did not fail, in order; a chunk
\* that is skipped or fails stops neither the loop nor the run.
BadChunkIsSkippedLocally ==
  /\ pc = "vectorize" =>
       /\ Len(outcomes) = seg_i - 1
       /\ LET ok == OkSegments(segments, outcomes, 1)
              added == SubSeq(collection, doc_base + 1, Len(collection))
          IN /\ Len(added) = Len(ok)
             /\ \A j \in 1..Len(ok) :
                  /\ added[j].document = ok[j].text
                  /\ added[j].metadata = ok[j].metadata
  /\ pc = "raised" => outcomes = <<>> \/ seg_i > Len(segments)
  /\ \A k \in 1..Len(log) :
       log[k].extracted => /\ log[k].attempted = log[k].nsegments
                           /\ log[k].written = log[k].nsegments - log[k].skipped

\* a file of three or more chunks, all embedded: one in the middle had a
\* zero vector, the chunks before and behind it were written
BadChunkIsSkippedLocallyWitness ==
  /\ pc = "vectorize"
  /\ seg_i > Len(segments)
  /\ \E j \in 2..(Len(segments) - 1) :
       /\ outcomes[j] = "zero_norm"
       /\ outcomes[j - 1] = "ok"
       /\ outcomes[j + 1] = "ok"
       /\ Len(collection) - doc_base = Len(segments) - 1

\* the chunks of this run whose iteration ended in collection.add returning
RECURSIVE SumOk(_)
SumOk(entries) ==
  IF entries = <<>> THEN 0
  ELSE (Head(entries).attempted - Head(entries).skipped) + SumOk(Tail(entries))

OkInProgress ==
  IF pc = "vectorize"
  THEN Cardinality({j \in 1..Len(outcomes) : outcomes[j] = "ok"})
  ELSE 0

\* C11: indexing only appends. A step of the run leaves the collection as it
\* is or puts one record behind the records it holds, under an id none of
\* them has; at every point of the run the collection holds as many records
\* as when the run began plus one per chunk written since.
IndexingOnlyAppends ==
  /\ [](Len(collection) = run_base + SumOk(log) + OkInProgress)
  /\ [][\/ collection' = collection
        \/ /\ Len(collection') = Len(collection) + 1
           /\ SubSeq(collection', 1, Len(collection)) = collection
           /\ \A j \in 1..Len(collection) :
                collection[j].id # collection'[Len(collection')].id]_vars

\* a file that was indexed by an earlier run was indexed again: every record
\* of the earlier run is still there, and behind them the same chunks stand
\* a second time under other ids
IndexingOnlyAppendsWitness ==
  /\ pc = "done"
  /\ run_base > 0
  /\ Len(collection) = 2 * run_base
  /\ \A j \in 1..run_base :
       /\ collection[j].document = collection[run_base + j].document
       /\ collection[j].metadata = collection[run_base + j].metadata
       /\ collection[j].id # collection[run_base + j].id

\* C13: the `process` command exits with 0 exactly when the run wrote at
\* least one chunk to the collection, and with 1 otherwise.
ProcessExitsByChunksWritten ==
  exit_code # -1 => (exit_code = 0 <=> Len(collection) - run_base >= 1)

(***************************************************************************)
(* RAGEngine._query_ollama                                                 *)
(* What the backend does with the request is an input of the call:         *)
(*   response_text       200, a JSON object whose 'response' is a string   *)
(*   response_missing    200, a JSON object without 'response'             *)
(*   response_null       200, a JSON object whose 'response' is null       *)
(*   json_not_object     200, JSON that is no object (result.get fails)    *)
(*   json_invalid        200, a body that is no JSON                       *)
(*   http_error          a 4xx or 5xx status (raise_for_status)            *)
(*   connection_refused  requests.exceptions.ConnectionError               *)
(*   connect_timeout     requests.exceptions.ConnectTimeout                *)
(*   read_timeout        requests.exceptions.ReadTimeout                   *)
(*   other_error         any other exception                               *)
(***************************************************************************)
BackendOutcomes ==
  {"response_text", "response_missing", "response_null", "json_not_object",
   "json_invalid", "http_error", "connection_refused", "connect_timeout",
   "read_timeout", "other_error"}

\* the classes the exception of an outcome is an instance of, among those
\* the except clauses name ({} when the try block raises nothing)
ExceptionClasses(backend) ==
  CASE backend = "connection_refused" -> {"ConnectionError", "Exception"}
    [] backend = "connect_timeout" -> {"ConnectionError", "Timeout", "Exception"}
    [] backend = "read_timeout" -> {"Timeout", "Exception"}
    [] backend \in {"http_error", "json_invalid", "json_not_object",
                    "other_error"} -> {"Exception"}
    [] OTHER -> {}

Str(text, detail) == [type |-> "str", text |-> text, detail |-> detail]
NoneValue == [type |-> "NoneType", text |-> "", detail |-> ""]

ConnectionMessage ==
  Str("Fehler: Verbindung zu Ollama fehlgeschlagen. Stellen Sie sicher, dass Ollama laeuft.", "")
TimeoutMessage == Str("Fehler: Zeitueberschreitung bei der Anfrage an Ollama.", "")
GenericMessage(backend) == Str("Fehler bei der Anfrage: ", backend)
NoAnswerMessage == Str("Keine Antwort erhalten.", "")
NoDocumentsMessage ==
  Str("Entschuldigung, ich konnte keine relevanten Dokumente zu Ihrer Frage finden.", "")
ModelAnswer == Str("<response>", "")

\* a handler list without the closing `except Exception`
ExceptClausesNoCatchAll == <<"ConnectionError", "Timeout">>

\* the except clauses of lines 70-78, in order
ExceptClauses == <<"ConnectionError", "Timeout", "Exception">>

\* the first clause that catches an exception of these classes (0: none)
RECURSIVE FirstClause(_, _)
FirstClause(classes, k) ==
  IF k > Len(ExceptClauses) THEN 0
  ELSE IF ExceptClauses[k] \in classes THEN k
  ELSE FirstClause(classes, k + 1)

\* what the call raises ("none" when it returns) and the value it returns
query_ollama(prompt, backend) ==
  LET classes == ExceptionClasses(backend)
      clause == FirstClause(classes, 1)
  IN IF classes = {}
     THEN [raised |-> "none",
           value |-> CASE backend = "response_text" -> ModelAnswer
                       [] backend = "response_missing" -> NoAnswerMessage
                       [] OTHER -> NoneValue]
     ELSE IF clause = 0 THEN [raised |-> backend, value |-> NoneValue]
     ELSE [raised |-> "none",
           value |-> CASE ExceptClauses[clause] = "ConnectionError" ->
                            ConnectionMessage
                       [] ExceptClauses[clause] = "Timeout" -> TimeoutMessage
                       [] OTHER -> GenericMessage(backend)]

(***************************************************************************)
(* RAGEngine.retrieve_documents                                            *)
(*   embed: how self.nlp(query_text) went (ok, zero_norm, raises)          *)
(*   store: how collection.query went: it raised, or it returned the       *)
(*          records at these positions of the collection, best match first *)
(***************************************************************************)
EmbedOutcomes == {"ok", "zero_norm", "raises"}

\* a retrieval that queries the collection with any vector it got
QueriesStoreUnchecked(embed) == embed \in {"ok", "zero_norm"}

\* whether the call reaches collection.query (lines 82-86)
QueriesStore(embed) == embed = "ok"

\* the sequences of at most n distinct positions of a collection of size count
RECURSIVE Rankings(_, _)
Rankings(count, n) ==
  IF n = 0 THEN {<<>>}
  ELSE LET shorter == Rankings(count, n - 1) IN
       shorter \cup {Append(r, j) : r \in {x \in shorter : Len(x) = n - 1},
                                    j \in 1..count}

\* a store that returns up to one record more than it was asked for
HitsBeyondRequest(count, n_results) ==
  {r \in Rankings(count, Min(n_results + 1, count)) :
     \A j, k \in 1..Len(r) : j # k => r[j] # r[k]}

\* collection.query(n_results=...): at most n_results distinct records
Hits(count, n_results) ==
  {r \in Rankings(count, Min(n_results, count)) :
     \A j, k \in 1..Len(r) : j # k => r[j] # r[k]}

StoreNotQueried == [queried |-> FALSE, raised |-> FALSE, hits |-> <<>>]
StoreRaises == [queried |-> TRUE, raised |-> TRUE, hits |-> <<>>]
StoreReturns(hits) == [queried |-> TRUE, raised |-> FALSE, hits |-> hits]

retrieve_documents(coll, query_text, n_results, embed, store) ==
  IF ~QueriesStore(embed) THEN <<<<>>, <<>>>>
  ELSE IF store.raised THEN <<<<>>, <<>>>>
  ELSE IF store.hits = <<>> THEN <<<<>>, <<>>>>
  ELSE << [j \in 1..Len(store.hits) |-> coll[store.hits[j]].document],
          [j \in 1..Len(store.hits) |-> coll[store.hits[j]].metadata] >>

(***************************************************************************)
(* RAGEngine.generate_prompt: the labelled passages and the question       *)
(***************************************************************************)
\* meta.get(key, default)
Get(meta, key, default) == IF key \in DOMAIN meta THEN meta[key] ELSE default

generate_prompt(query_text, context_docs, metadatas) ==
  [context |-> [j \in 1..Min(Len(context_docs), Len(metadatas)) |->
                  [quelle |-> j,
                   filename |-> Get(metadatas[j], "filename",
                                    "Unbekanntes Dokument"),
                   title |-> Get(metadatas[j], "title",
                                 "Unbekannter Abschnitt"),
                   doc |-> context_docs[j]]],
   frage |-> query_text]

(***************************************************************************)
(* RAGEngine.process_query                                                 *)
(***************************************************************************)
SourceInfo(meta) ==
  [filename |-> Get(meta, "filename", "Unbekannt"),
   title |-> Get(meta, "title", "Unbekannt"),
   page_number |-> Get(meta, "page_number", "N/A"),
   chunk_index |-> Get(meta, "chunk_index", "N/A"),
   pdf_path |-> Get(meta, "pdf_path", "")]

\* a comparison on the file name alone
SameFile(a, b) == a.filename = b.filename

\* dict equality, as `source_info not in sources` uses it (line 200)
SameSource(a, b) == a = b

\* the loop of lines 191-201, from metadatas[k] on
RECURSIVE SourcesLoop(_, _, _)
SourcesLoop(metadatas, k, sources) ==
  IF k > Len(metadatas) THEN sources
  ELSE LET source_info == SourceInfo(metadatas[k]) IN
       IF \E j \in 1..Len(sources) : SameSource(sources[j], source_info)
       THEN SourcesLoop(metadatas, k + 1, sources)
       ELSE SourcesLoop(metadatas, k + 1, Append(sources, source_info))

\* a count taken from the deduplicated sources
ContextCountOfSources(context_docs, sources) == Len(sources)

\* 'context_count': len(context_docs) (line 208)
ContextCount(context_docs, sources) == Len(context_docs)

\* a try block that starts behind the embedding of the query
RetrieveCatchesStoreOnly(embed, store) == embed # "raises"

\* `except Exception` of retrieve_documents (rag_engine.py:97-99): it
\* catches whatever the embedding or the store query raised
RetrieveCatches(embed, store) == TRUE

\* whether retrieve_documents leaves with an exception
RetrieveRaises(embed, store) ==
  /\ embed = "raises" \/ store.raised
  /\ ~RetrieveCatches(embed, store)

\* a process_query that builds the prompt and asks the backend before it
\* looks at what was retrieved
process_query_eager(coll, query_text, n_results, embed, store, backend) ==
  LET retrieved == retrieve_documents(coll, query_text, n_results, embed, store)
      context_docs == retrieved[1]
      metadatas == retrieved[2]
      prompt == generate_prompt(query_text, context_docs, metadatas)
      generated == query_ollama(prompt, backend)
      sources == SourcesLoop(metadatas, 1, <<>>)
  IN IF RetrieveRaises(embed, store)
     THEN [calls |-> <<"retrieve">>, retrieved |-> <<>>,
           prompt |-> <<>>, generated |-> <<>>, raised |-> "retrieve",
           result |-> [error |-> "retrieve"]]
     ELSE IF FALSE
     THEN [calls |-> <<"retrieve">>, retrieved |-> retrieved,
           prompt |-> <<>>, generated |-> <<>>, raised |-> "none",
           result |-> [answer |-> NoDocumentsMessage, sources |-> <<>>,
                       query |-> query_text, success |-> FALSE]]
     ELSE IF context_docs = <<>>
     THEN [calls |-> <<"retrieve", "build", "generate">>,
           retrieved |-> retrieved, prompt |-> <<prompt>>,
           generated |-> <<generated>>, raised |-> "none",
           result |-> [answer |-> NoDocumentsMessage, sources |-> <<>>,
                       query |-> query_text, success |-> FALSE]]
     ELSE IF generated.raised # "none"
     THEN [calls |-> <<"retrieve", "build", "generate">>,
           retrieved |-> retrieved, prompt |-> <<prompt>>,
           generated |-> <<generated>>, raised |-> generated.raised,
           result |-> [error |-> generated.raised]]
     ELSE [calls |-> <<"retrieve", "build", "generate">>,
           retrieved |-> retrieved, prompt |-> <<prompt>>,
           generated |-> <<generated>>, raised |-> "none",
           result |-> [answer |-> generated.value, sources |-> sources,
                       query |-> query_text, success |-> TRUE,
                       context_count |-> ContextCount(context_docs, sources)]]

\* the call: the collaborators it invoked, in order, what it raised, and the
\* dictionary it returned
process_query(coll, query_text, n_results, embed, store, backend) ==
  LET retrieved == retrieve_documents(coll, query_text, n_results, embed, store)
      context_docs == retrieved[1]
      metadatas == retrieved[2]
      prompt == generate_prompt(query_text, context_docs, metadatas)
      generated == query_ollama(prompt, backend)
      sources == SourcesLoop(metadatas, 1, <<>>)
  IN IF RetrieveRaises(embed, store)
     THEN [calls |-> <<"retrieve">>, retrieved |-> <<>>,
           prompt |-> <<>>, generated |-> <<>>, raised |-> "retrieve",
           result |-> [error |-> "retrieve"]]
     ELSE IF context_docs = <<>>
     THEN [calls |-> <<"retrieve">>, retrieved |-> retrieved,
           prompt |-> <<>>, generated |-> <<>>, raised |-> "none",
           result |-> [answer |-> NoDocumentsMessage, sources |-> <<>>,
                       query |-> query_text, success |-> FALSE]]
     ELSE IF generated.raised # "none"
     THEN [calls |-> <<"retrieve", "build", "generate">>,
           retrieved |-> retrieved, prompt |-> <<prompt>>,
           generated |-> <<generated>>, raised |-> generated.raised,
           result |-> [error |-> generated.raised]]
     ELSE [calls |-> <<"retrieve", "build", "generate">>,
           retrieved |-> retrieved, prompt |-> <<prompt>>,
           generated |-> <<generated>>, raised |-> "none",
           result |-> [answer |-> generated.value, sources |-> sources,
                       query |-> query_text, success |-> TRUE,
                       context_count |-> ContextCount(context_docs, sources)]]

(***************************************************************************)
(* RAGEngine.check_system_status                                           *)
(* What each probe meets is an input of the call:                          *)
(*   collection.count()      ok | raises                                   *)
(*   self.nlp("Test")        ok (vector_norm > 0) | zero_norm | raises     *)
(*   GET /api/version        status_200 | status_other | raises            *)
(***************************************************************************)
ChromaProbes == {"ok", "raises"}
SpacyProbes == {"ok", "zero_norm", "raises"}
OllamaProbes == {"status_200", "status_other", "raises"}

\* one try block around the three probes: the first failure ends them
ProbeRunsInSharedTry(earlier) ==
  \A j \in 1..Len(earlier) : earlier[j] # "raises"

\* every probe has a try block of its own (lines 158-173): it runs whatever
\* became of the probes before it, whose outcomes are `earlier`
ProbeRuns(earlier) == TRUE

\* line 157
StatusInit == [chroma_db |-> FALSE, spacy_model |-> FALSE, ollama |-> FALSE,
               document_count |-> 0]

\* the probes that ran, in order, and the dictionary returned
check_system_status(coll, chroma, spacy, ollama) ==
  LET run1 == ProbeRuns(<<>>)
      s1 == IF run1 /\ chroma = "ok"
            THEN [StatusInit EXCEPT !.chroma_db = TRUE,
                                    !.document_count = Len(coll)]
            ELSE StatusInit
      run2 == ProbeRuns(<<chroma>>)
      s2 == IF run2 /\ spacy # "raises"
            THEN [s1 EXCEPT !.spacy_model = (spacy = "ok")]
            ELSE s1
      run3 == ProbeRuns(<<chroma, spacy>>)
      s3 == IF run3 /\ ollama # "raises"
            THEN [s2 EXCEPT !.ollama = (ollama = "status_200")]
            ELSE s2
  IN [raised |-> "none",
      probes |-> (IF run1 THEN <<"chroma_db">> ELSE <<>>)
                 \o (IF run2 THEN <<"spacy_model">> ELSE <<>>)
                 \o (IF run3 THEN <<"ollama">> ELSE <<>>),
      status |-> s3]

(***************************************************************************)
(* main.test_system                                                        *)
(***************************************************************************)
\* main.py:78
CanaryQuery == "Wie lange dauert das Masterstudium?"
\* main.py:79  n_results=3
CanaryResults == 3

\* create_rag_engine(): the spaCy model, the Chroma directory and the
\* collection are there, or the constructor raises (rag_engine.py:13-52)
EngineInits == {"ok", "raises"}

\* all(status.values()), main.py:76,87: the three flags and document_count
AllValues(status) ==
  /\ status.chroma_db
  /\ status.spacy_model
  /\ status.ollama
  /\ status.document_count # 0

\* result['answer'][:100], main.py:83: the slice of a value of another type
\* than str raises TypeError
PreviewRaises(result) == result.answer.type # "str"

\* whether the status check was made and with what result, whether the
\* canary query was made and with what result, and the value returned
test_system(coll, init, chroma, spacy, ollama, embed, store, backend) ==
  IF init = "raises"
  THEN [probed |-> FALSE, queried |-> FALSE, success |-> FALSE]
  ELSE LET st == check_system_status(coll, chroma, spacy, ollama)
           q == process_query(coll, CanaryQuery, CanaryResults, embed, store,
                              backend)
           queried == AllValues(st.status)
           caught == queried /\ (IF q.raised # "none" THEN TRUE
                                  ELSE q.result.success
                                       /\ PreviewRaises(q.result))
       IN [probed |-> TRUE, status |-> st, queried |-> queried, query |-> q,
           success |-> ~caught /\ AllValues(st.status)]

(***************************************************************************)
(* What a query-time call does to the collection.                          *)
(***************************************************************************)
\* a read that evicts the oldest record
StoreAfterReadEvicting(coll) == SubSeq(coll, 2, Len(coll))

\* collection.query (rag_engine.py:87-90) and collection.count (line 159)
\* are the only calls made on the collection; both read it
StoreAfterRead(coll) == coll

\* the variables of the indexer besides the collection
indexRest == <<next_uuid, pc, pdf_files, doc_i, segments, seg_i,
               total_segments, outcomes, doc_base, faults, log, run_base>>

(***************************************************************************)
(* Specification SpecQuery: queries against the collection earlier         *)
(* indexing runs left.                                                     *)
(***************************************************************************)
Queries == {"Wie lange dauert das Masterstudium?", "?!"}

\* the runs that filled the collection: none, one file, the same file
\* twice, two files
IndexedBefore ==
  {<<>>, <<OnePagePdf>>, <<OnePagePdf, OnePagePdf>>, <<TwoPagePdf, OnePagePdf>>}

InitQuery ==
  /\ \E cfg \in IndexConfigs : chunk_size = cfg[1] /\ chunk_overlap = cfg[2]
  /\ IndexIdle
  /\ collection \in {StoreAfter(b, <<>>, chunk_size, chunk_overlap) :
                       b \in IndexedBefore}
  /\ next_uuid = Len(collection) + 1
  /\ run_base = Len(collection)
  /\ seg_call = NoSegCall
  /\ query_call = NoQueryCall
  /\ CliIdle

\* process_query keeps nothing from one call to the next: a behaviour holds
\* one call, made against any of the collections
ProcessQuery ==
  /\ ~query_call.called
  /\ ~status_call.called
  /\ exit_code = -1
  /\ \E query_text \in Queries, n_results \in 1..MaxResults,
        embed \in EmbedOutcomes :
       \E store \in IF QueriesStore(embed)
                    THEN {StoreRaises} \cup
                         {StoreReturns(h) : h \in Hits(Len(collection),
                                                        n_results)}
                    ELSE {StoreNotQueried} :
         \E backend \in IF retrieve_documents(collection, query_text,
                                              n_results, embed, store)[1] # <<>>
                        THEN BackendOutcomes ELSE {"not_called"} :
           LET r == process_query(collection, query_text, n_results, embed,
                                  store, backend)
           IN /\ query_call' =
                   [called |-> TRUE, query_text |-> query_text,
                    n_results |-> n_results, embed |-> embed,
                    store |-> store, backend |-> backend,
                    calls |-> r.calls, retrieved |-> r.retrieved,
                    prompt |-> r.prompt, generated |-> r.generated,
                    raised |-> r.raised, result |-> r.result]
              /\ collection' = IF store.queried
                               THEN StoreAfterRead(collection)
                               ELSE collection
  /\ UNCHANGED <<chunk_size, chunk_overlap, indexRest, seg_call, exit_code,
                 status_call, clean_call, config_call, crawl>>

\* check_system_status, called by itself (streamlit_ui.py:89)
CheckSystemStatus ==
  /\ ~status_call.called
  /\ ~query_call.called
  /\ exit_code = -1
  /\ \E chroma \in ChromaProbes, spacy \in SpacyProbes,
        ollama \in OllamaProbes :
       LET r == check_system_status(collection, chroma, spacy, ollama)
       IN status_call' = [called |-> TRUE, chroma |-> chroma, spacy |-> spacy,
                          ollama |-> ollama, raised |-> r.raised,
                          probes |-> r.probes, status |-> r.status]
  /\ collection' = StoreAfterRead(collection)
  /\ UNCHANGED <<chunk_size, chunk_overlap, indexRest, seg_call, query_call,
                 exit_code, clean_call, config_call, crawl>>

\* the `test` command: test_system and the exit (main.py:142-144)
TestSystem ==
  /\ exit_code = -1
  /\ ~status_call.called
  /\ ~query_call.called
  /\ \E init \in EngineInits, chroma \in ChromaProbes, spacy \in SpacyProbes,
        ollama \in OllamaProbes, embed \in EmbedOutcomes :
       \E store \in IF QueriesStore(embed)
                    THEN {StoreRaises} \cup
                         {StoreReturns(h) : h \in Hits(Len(collection),
                                                        CanaryResults)}
                    ELSE {StoreNotQueried} :
         \E backend \in IF retrieve_documents(collection, CanaryQuery,
                                              CanaryResults, embed,
                                              store)[1] # <<>>
                        THEN BackendOutcomes ELSE {"not_called"} :
           LET t == test_system(collection, init, chroma, spacy, ollama,
                                embed, store, backend)
           IN /\ status_call' =
                   IF t.probed
                   THEN [called |-> TRUE, chroma |-> chroma, spacy |-> spacy,
                         ollama |-> ollama, raised |-> t.status.raised,
                         probes |-> t.status.probes,
                         status |-> t.status.status]
                   ELSE status_call
              /\ query_call' =
                   IF t.queried
                   THEN [called |-> TRUE, query_text |-> CanaryQuery,
                         n_results |-> CanaryResults, embed |-> embed,
                         store |-> store, backend |-> backend,
                         calls |-> t.query.calls,
                         retrieved |-> t.query.retrieved,
                         prompt |-> t.query.prompt,
                         generated |-> t.query.generated,
                         raised |-> t.query.raised, result |-> t.query.result]
                   ELSE query_call
              /\ exit_code' = ExitCode(t.success)
              /\ collection' = IF t.probed THEN StoreAfterRead(collection)
                               ELSE collection
  /\ UNCHANGED <<chunk_size, chunk_overlap, indexRest, seg_call, clean_call,
                 config_call, crawl>>

NextQuery ==
  \/ ProcessQuery
  \/ CheckSystemStatus
  \/ TestSystem

SpecQuery == InitQuery /\ [][NextQuery]_vars

(***************************************************************************)
(* Properties of a query (SpecQuery).                                      *)
(***************************************************************************)
\* C1: process_query raises nothing; it returns success False exactly when
\* retrieve_documents returned no passage, and otherwise success True with
\* context_count the number of passages retrieved and answer the value
\* _query_ollama returned: for a refused connection the connection message.
ProcessQueryContract ==
  query_call.called =>
    LET context_docs == query_call.retrieved[1] IN
    /\ query_call.raised = "none"
    /\ "success" \in DOMAIN query_call.result
    /\ query_call.result.success = (context_docs # <<>>)
    /\ context_docs # <<>> =>
         /\ query_call.result.context_count = Len(context_docs)
         /\ query_call.generated # <<>>
         /\ query_call.generated[1].raised = "none"
         /\ query_call.result.answer = query_call.generated[1].value
         /\ query_call.backend = "connection_refused" =>
              query_call.result.answer = ConnectionMessage

\* passages were retrieved, two of them from the same source, and the
\* backend refused the connection
ProcessQueryContractWitness ==
  /\ query_call.called
  /\ query_call.backend = "connection_refused"
  /\ Len(query_call.retrieved[1]) = 3
  /\ Len(query_call.result.sources) = 2
  /\ query_call.result.success

\* C2: with a zero query vector, or with no record returned by the
\* collection, retrieve_documents returns ([], []) and process_query returns
\* the same dictionary: success False, no sources, the fixed message.
EmptyRetrievalResult ==
  (/\ query_call.called
   /\ \/ query_call.embed = "zero_norm"
      \/ query_call.embed = "ok" /\ ~query_call.store.raised
           /\ query_call.store.hits = <<>>) =>
    /\ query_call.retrieved = <<<<>>, <<>>>>
    /\ query_call.raised = "none"
    /\ query_call.result = [answer |-> NoDocumentsMessage, sources |-> <<>>,
                            query |-> query_call.query_text,
                            success |-> FALSE]

\* a query with a zero vector against a collection that holds records
EmptyRetrievalResultWitness ==
  /\ query_call.called
  /\ query_call.embed = "zero_norm"
  /\ Len(collection) >= 2
  /\ ~query_call.result.success

\* C3: _query_ollama raises nothing and returns a string, whatever the
\* backend did.
GenerateReturnsString ==
  (query_call.called /\ query_call.generated # <<>>) =>
    /\ query_call.generated[1].raised = "none"
    /\ query_call.generated[1].value.type = "str"

\* the position of the first metadata whose source is x
FirstOccurrence(metadatas, x) ==
  CHOOSE j \in 1..Len(metadatas) :
    /\ SourceInfo(metadatas[j]) = x
    /\ \A k \in 1..(j - 1) : SourceInfo(metadatas[k]) # x

\* C7: the sources of a successful result are the distinct sources of the
\* retrieved metadata, each once, in the order of their first occurrence.
DedupStability ==
  (query_call.called /\ query_call.raised = "none"
     /\ query_call.result.success) =>
    LET metadatas == query_call.retrieved[2]
        sources == query_call.result.sources
    IN /\ \A j, k \in 1..Len(sources) : j # k => sources[j] # sources[k]
       /\ {sources[j] : j \in 1..Len(sources)}
            = {SourceInfo(metadatas[j]) : j \in 1..Len(metadatas)}
       /\ \A j, k \in 1..Len(sources) :
            j < k => FirstOccurrence(metadatas, sources[j])
                       < FirstOccurrence(metadatas, sources[k])

\* three passages retrieved, the first and the third from the same source
DedupStabilityWitness ==
  /\ query_call.called
  /\ query_call.result.success
  /\ Len(query_call.retrieved[2]) = 3
  /\ SourceInfo(query_call.retrieved[2][1]) = SourceInfo(query_call.retrieved[2][3])
  /\ SourceInfo(query_call.retrieved[2][1]) # SourceInfo(query_call.retrieved[2][2])
  /\ Len(query_call.result.sources) = 2

\* C22: the string _query_ollama returns on a failure is fixed by the kind
\* of the failure: the connection message for a refused connection, the
\* timeout message for a timeout while connecting or while reading, the
\* generic message with the text of the error for every other failure.
FailureMessageByKind ==
  (query_call.called /\ query_call.generated # <<>>) =>
     LET g == query_call.generated[1] IN
     /\ query_call.backend = "connection_refused" =>
          g.value = ConnectionMessage
     /\ query_call.backend \in {"connect_timeout", "read_timeout"} =>
          g.value = TimeoutMessage
     /\ query_call.backend \in {"http_error", "json_invalid",
                                "json_not_object", "other_error"} =>
          g.value = GenericMessage(query_call.backend)

\* C25: a process_query call invokes retrieve, the prompt build and the
\* backend at most once each and in this order; when nothing was retrieved
\* it ends behind retrieve, without a prompt and without a backend call.
QueryIsLinear ==
  query_call.called =>
     /\ query_call.calls \in {<<"retrieve">>,
                               <<"retrieve", "build", "generate">>}
     /\ (query_call.raised = "none" /\ query_call.retrieved[1] = <<>>) =>
          /\ query_call.calls = <<"retrieve">>
          /\ query_call.prompt = <<>>
          /\ query_call.generated = <<>>
     /\ Len(query_call.prompt) <= 1
     /\ Len(query_call.generated) <= 1

\* a query against a collection with records for which the store returned
\* nothing: the call ended behind retrieve
QueryIsLinearWitness ==
  /\ query_call.called
  /\ Len(collection) > 0
  /\ query_call.embed = "ok"
  /\ ~query_call.store.raised
  /\ query_call.store.hits = <<>>
  /\ query_call.calls = <<"retrieve">>
  /\ ~query_call.result.success

\* C26: an exception of the embedding of the query or of the store query
\* does not leave retrieve_documents, which returns ([], []); process_query
\* raises nothing and returns what it returns for an empty retrieval,
\* success False with the fixed message.
RetrievalFailureIsEmptyRetrieval ==
  (/\ query_call.called
   /\ query_call.embed = "raises" \/ query_call.store.raised) =>
     /\ query_call.raised = "none"
     /\ query_call.retrieved = << <<>>, <<>> >>
     /\ query_call.calls = <<"retrieve">>
     /\ query_call.result = [answer |-> NoDocumentsMessage, sources |-> <<>>,
                             query |-> query_call.query_text,
                             success |-> FALSE]

\* the store query raised over a collection that holds records
RetrievalFailureIsEmptyRetrievalWitness ==
  /\ query_call.called
  /\ Len(collection) > 0
  /\ query_call.embed = "ok"
  /\ query_call.store.raised
  /\ query_call.result.answer = NoDocumentsMessage

SourcesWithinContextCount ==
  (/\ query_call.called
   /\ query_call.raised = "none"
   /\ query_call.result.success) =>
     /\ 1 <= Len(query_call.result.sources)
     /\ Len(query_call.result.sources) <= query_call.result.context_count
     /\ query_call.result.context_count <= query_call.n_results

\* as many passages as were asked for, two of them from the same place: the
\* sources are fewer than the passages
SourcesWithinContextCountWitness ==
  /\ query_call.called
  /\ query_call.raised = "none"
  /\ query_call.result.success
  /\ query_call.n_results >= 2
  /\ query_call.result.context_count = query_call.n_results
  /\ Len(query_call.result.sources) < query_call.result.context_count

(***************************************************************************)
(* Properties of the status check (SpecQuery).                             *)
(***************************************************************************)
\* C12: a call of check_system_status runs the three probes, each whatever
\* became of the others, and raises nothing; it returns three booleans, each
\* the verdict of its own probe alone, and the record count, which is 0 when
\* the store probe failed.
StatusProbesAreIndependent ==
  status_call.called =>
     /\ status_call.raised = "none"
     /\ status_call.probes = <<"chroma_db", "spacy_model", "ollama">>
     /\ DOMAIN status_call.status
          = {"chroma_db", "spacy_model", "ollama", "document_count"}
     /\ status_call.status.chroma_db = (status_call.chroma = "ok")
     /\ status_call.status.spacy_model = (status_call.spacy = "ok")
     /\ status_call.status.ollama = (status_call.ollama = "status_200")
     /\ status_call.status.document_count
          = IF status_call.chroma = "ok" THEN Len(collection) ELSE 0

\* the store probe raised over a collection that holds records; the probes
\* behind it ran and passed
StatusProbesAreIndependentWitness ==
  /\ status_call.called
  /\ Len(collection) > 0
  /\ status_call.chroma = "raises"
  /\ status_call.status.document_count = 0
  /\ status_call.status.spacy_model
  /\ status_call.status.ollama

(***************************************************************************)
(* Properties of the `test` command (SpecQuery).                           *)
(***************************************************************************)
\* C14: when the `test` command has run the status check, it exits with 0
\* exactly when the three probes passed, whatever else the run met.
TestExitsByProbes ==
  (exit_code # -1 /\ status_call.called) =>
     (exit_code = 0 <=> /\ status_call.chroma = "ok"
                        /\ status_call.spacy = "ok"
                        /\ status_call.ollama = "status_200")

\* C15: the result of every process_query call that returns, whether
\* passages were retrieved or not, has the five fields answer, sources,
\* query, success and context_count; its query is the query asked and no
\* source stands twice in its sources.
QueryResultHasFiveFields ==
  (query_call.called /\ query_call.raised = "none") =>
     /\ DOMAIN query_call.result
          = {"answer", "sources", "query", "success", "context_count"}
     /\ query_call.result.query = query_call.query_text
     /\ \A j, k \in 1..Len(query_call.result.sources) :
          j # k => query_call.result.sources[j] # query_call.result.sources[k]

(***************************************************************************)
(* Specification SpecClean: clean_text applied to every text of at most    *)
(* MaxTextLen tokens, and once more to its own result.                     *)
(***************************************************************************)
TextTokens == {W(1), KW, COLON, SP, NL}

RECURSIVE Texts(_)
Texts(n) ==
  IF n = 0 THEN {<<>>}
  ELSE LET shorter == Texts(n - 1) IN
       shorter \cup {Append(t, x) : t \in {y \in shorter : Len(y) = n - 1},
                                    x \in TextTokens}

InitClean ==
  /\ chunk_size \in {MaxChunkSize}
  /\ chunk_overlap \in {0}
  /\ IndexIdle
  /\ collection = <<>>
  /\ next_uuid = 1
  /\ run_base = 0
  /\ seg_call = NoSegCall
  /\ query_call = NoQueryCall
  /\ exit_code = -1
  /\ status_call = NoStatusCall
  /\ config_call = NoConfigCall
  /\ crawl = NoCrawl
  /\ \E text \in Texts(MaxTextLen) :
       clean_call = [NoCleanCall EXCEPT !.text = text]

CleanText ==
  /\ ~clean_call.done
  /\ clean_call' = [clean_call EXCEPT
                      !.done = TRUE,
                      !.cleaned = clean_text(clean_call.text),
                      !.again = clean_text(clean_text(clean_call.text))]
  /\ UNCHANGED <<chunk_size, chunk_overlap, indexVars, seg_call, query_call,
                 exit_code, status_call, config_call, crawl>>

NextClean == CleanText

SpecClean == InitClean /\ [][NextClean]_vars

(***************************************************************************)
(* Properties of clean_text (SpecClean).                                   *)
(***************************************************************************)
\* a text whose only white space is single blanks between words
SingleSpaced(t) ==
  /\ \A j \in 1..Len(t) : t[j] # NL
  /\ \A j \in 1..(Len(t) - 1) : ~(IsSpace(t[j]) /\ IsSpace(t[j + 1]))
  /\ t # <<>> => ~IsSpace(t[1]) /\ ~IsSpace(t[Len(t)])

\* C16: clean_text applied to its own result returns that result, and the
\* result has no white space but single blanks between words, none at
\* either end.
CleanTextIdempotent ==
  clean_call.done =>
     /\ clean_call.again = clean_call.cleaned
     /\ SingleSpaced(clean_call.cleaned)

\* a text that starts with white space, has a line break and a run of white
\* space inside and ends with white space, cleaned to two or more words
CleanTextIdempotentWitness ==
  /\ clean_call.done
  /\ Len(clean_call.text) = MaxTextLen
  /\ IsSpace(clean_call.text[1])
  /\ IsSpace(clean_call.text[Len(clean_call.text)])
  /\ \E j \in 2..(Len(clean_call.text) - 1) : clean_call.text[j] = NL
  /\ Len(Split(clean_call.cleaned)) >= 2

(***************************************************************************)
(* Properties of the section split (SpecChunk).                            *)
(***************************************************************************)
\* C17: the one-page document of scenario A, two headed sections of 90 and
\* 40 body words cut with chunk_size 50 and chunk_overlap 10, yields three
\* chunks: words 0-49 and 40-89 of the first section and the second
\* section, with the chunk_index values 1, 2, 3.
ScenarioAYieldsThreeChunks ==
  (/\ seg_call.done
   /\ seg_call.pages_data = PagesFrom(ScenarioA.pages, 1)
   /\ chunk_size = ScenarioA.chunk_size
   /\ chunk_overlap = ScenarioA.chunk_overlap) =>
     /\ seg_call.raised = "none"
     /\ Len(seg_call.segments) = 3
     /\ \A k \in 1..3 : seg_call.segments[k].metadata.chunk_index = k
     /\ seg_call.segments[1].text = SubSeq(ScenarioA.first, 1, 2 * 50 - 1)
     /\ seg_call.segments[2].text
          = SubSeq(ScenarioA.first, 2 * 40 + 1, 2 * 90 - 1)
     /\ seg_call.segments[3].text = ScenarioA.second

\* the sections collected from the page numbered n
SectionsOfPage(n) ==
  SelectSeq(seg_call.all_segments, LAMBDA sec : sec.page_number = n)

\* C19: on a page with headings every section carries the heading that
\* stands nearest before its body as title; it carries "Abschnitt" only if
\* its body is the text before the first heading.
SectionsCarryHeadings ==
  seg_call.done =>
     \A j \in 1..Len(seg_call.pages_data) :
        LET page == seg_call.pages_data[j]
            cleaned == clean_text(page.text)
            first == FindMatch(cleaned, 1)
            sections == SectionsOfPage(page.page_number)
        IN first # 0 =>
             \A k \in 1..Len(sections) :
                IF sections[k].title = Abschnitt
                THEN /\ first > 1
                     /\ sections[k].text
                          = clean_text(SubSeq(cleaned, 1, first - 1))
                ELSE re_match(sections[k].title)

\* C20: a page without a heading gives exactly one section, titled
\* "Gesamtdokument", whose body is the whole cleaned text of the page, if
\* that text has more than 10 words, and no section otherwise.
NoHeadingIsWholeDocument ==
  seg_call.done =>
     \A j \in 1..Len(seg_call.pages_data) :
        LET page == seg_call.pages_data[j]
            cleaned == clean_text(page.text)
        IN FindMatch(cleaned, 1) = 0 =>
             SectionsOfPage(page.page_number)
               = IF Len(Split(cleaned)) > 10
                 THEN <<Section(Gesamtdokument, cleaned, page.page_number)>>
                 ELSE <<>>

\* two pages without a heading: one of more than 10 words, set with line
\* breaks and runs of blanks, gave its section; one of exactly 10 words
\* gave none
NoHeadingIsWholeDocumentWitness ==
  /\ seg_call.done
  /\ Len(seg_call.pages_data) = 2
  /\ Len(seg_call.all_segments) = 1
  /\ seg_call.all_segments[1].title = Gesamtdokument
  /\ seg_call.all_segments[1].page_number = 1
  /\ seg_call.all_segments[1].text # seg_call.pages_data[1].text
  /\ FindMatch(clean_text(seg_call.pages_data[2].text), 1) = 0
  /\ Len(Split(seg_call.pages_data[2].text)) = 10

\* C21: every section collected has a body of more than 10 words, a shorter
\* body is dropped and nothing is raised for it; a page that holds a lone
\* heading gives no section and no chunk.
ShortBodiesAreDropped ==
  seg_call.done =>
     /\ \A k \in 1..Len(seg_call.all_segments) :
          Len(Split(seg_call.all_segments[k].text)) > 10
     /\ \A j \in 1..Len(seg_call.pages_data) :
          LET page == seg_call.pages_data[j]
              cleaned == clean_text(page.text)
          IN (re_match(cleaned) /\ MatchEnd(cleaned, 1) = Len(cleaned)) =>
               /\ SectionsOfPage(page.page_number) = <<>>
               /\ \A k \in 1..Len(seg_call.segments) :
                    seg_call.segments[k].metadata.page_number
                      # page.page_number
     /\ (seg_call.raised # "none" => chunk_size - chunk_overlap = 0)

\* the first page holds a lone heading and gave nothing; the second page
\* gave a section that was cut into chunks
ShortBodiesAreDroppedWitness ==
  /\ seg_call.done
  /\ Len(seg_call.pages_data) = 2
  /\ clean_text(seg_call.pages_data[1].text) = <<KW, COLON>>
  /\ Len(seg_call.all_segments) = 1
  /\ seg_call.all_segments[1].page_number = 2
  /\ seg_call.segments # <<>>

\* the last n elements of s
LastWords(s, n) == SubSeq(s, Len(s) - n + 1, Len(s))

OneChunkPerWindowStart ==
  (seg_call.done /\ ValidConfig) =>
     /\ Len(seg_call.by_section) = Len(seg_call.all_segments)
     /\ \A k \in 1..Len(seg_call.all_segments) :
          LET words == Split(seg_call.all_segments[k].text)
              n == Len(words)
              stride == chunk_size - chunk_overlap
              chunks == seg_call.by_section[k]
          IN /\ n >= 1
             /\ Len(chunks) = (n + stride - 1) \div stride
             /\ \A j \in 1..Len(chunks) :
                  Split(chunks[j].text)
                    = SubSeq(words, (j - 1) * stride + 1,
                             Min((j - 1) * stride + chunk_size, n))

\* a section whose word count is no multiple of the stride, cut into three
\* or more chunks: the last is a partial window, the one before it is full
OneChunkPerWindowStartWitness ==
  /\ seg_call.done /\ ValidConfig
  /\ \E k \in 1..Len(seg_call.by_section) :
       LET chunks == seg_call.by_section[k]
           n == Len(Split(seg_call.all_segments[k].text))
       IN /\ Len(chunks) >= 3
          /\ n % (chunk_size - chunk_overlap) # 0
          /\ Len(Split(chunks[Len(chunks)].text)) < chunk_size
          /\ Len(Split(chunks[Len(chunks) - 1].text)) = chunk_size

\* C28: under a valid configuration every chunk holds at least 1 and at most
\* chunk_size words, and its title and page_number are those of the section
\* it was cut from.
ChunkWithinSection ==
  (seg_call.done /\ ValidConfig) =>
     /\ Len(seg_call.by_section) = Len(seg_call.all_segments)
     /\ \A k \in 1..Len(seg_call.all_segments) :
          \A j \in 1..Len(seg_call.by_section[k]) :
             LET chunk == seg_call.by_section[k][j]
                 sec == seg_call.all_segments[k]
             IN /\ Len(Split(chunk.text)) >= 1
                /\ Len(Split(chunk.text)) <= chunk_size
                /\ chunk.metadata.title = sec.title
                /\ chunk.metadata.page_number = sec.page_number

\* two pages gave a section each, with different titles; the section of the
\* second page was cut into a full window and a window of one word
ChunkWithinSectionWitness ==
  /\ seg_call.done /\ ValidConfig /\ chunk_size > 1
  /\ Len(seg_call.all_segments) = 2
  /\ seg_call.all_segments[1].title # seg_call.all_segments[2].title
  /\ seg_call.all_segments[2].page_number = 2
  /\ LET chunks == seg_call.by_section[2]
     IN /\ Len(chunks) >= 2
        /\ Len(Split(chunks[1].text)) = chunk_size
        /\ Len(Split(chunks[Len(chunks)].text)) = 1
        /\ chunks[Len(chunks)].metadata.page_number = 2

(***************************************************************************)
(* Specification SpecStartup: the construction of the global Config        *)
(* (config.py:113) and of the engine of a command.                         *)
(* The configuration file is an input:                                     *)
(*   missing        config.yaml does not exist                             *)
(*   unreadable     open() raises                                          *)
(*   invalid_yaml   yaml.safe_load raises                                  *)
(*   empty          yaml.safe_load returns None                            *)
(*   mapping        a mapping with some of the required sections and a     *)
(*                  chunk_size and chunk_overlap                           *)
(* and so are the sections the environment variables override and whether  *)
(* the Chroma store can be opened.                                         *)
(***************************************************************************)
\* config.py:84
RequiredKeys == {"app", "chroma", "ollama", "documents", "spacy", "logging"}

\* config.py:67-68
DefaultChunkSize == 500
DefaultChunkOverlap == 50

\* the sections _override_with_env writes to (config.py:38-45), one per
\* environment variable that is set
EnvSections == {"ollama", "logging", "chroma"}

FileSizings == {<<MaxChunkSize, 0>>, <<MaxChunkSize, MaxChunkSize>>, <<1, 2>>}

ConfigFiles ==
  {[kind |-> k, keys |-> {}, sizing |-> <<0, 0>>] :
     k \in {"missing", "unreadable", "invalid_yaml", "empty"}}
  \cup {[kind |-> "mapping", keys |-> K, sizing |-> z] :
          K \in SUBSET RequiredKeys, z \in FileSizings}

get_default_config ==
  [source |-> "defaults", keys |-> RequiredKeys,
   chunk_size |-> DefaultChunkSize, chunk_overlap |-> DefaultChunkOverlap]

\* _load_config: whatever is raised between exists() and the return is
\* caught and answered with the defaults (config.py:33-35)
load_config(file, env) ==
  IF file.kind = "missing" THEN get_default_config
  ELSE IF file.kind \in {"unreadable", "invalid_yaml"}
  THEN get_default_config
  ELSE IF file.kind = "empty"
  THEN IF env # {} THEN get_default_config
       ELSE [source |-> "none", keys |-> {}, chunk_size |-> 0,
             chunk_overlap |-> 0]
  ELSE IF ~(env \subseteq file.keys) THEN get_default_config
  ELSE [source |-> "file", keys |-> file.keys,
        chunk_size |-> file.sizing[1], chunk_overlap |-> file.sizing[2]]

\* _validate_config: `key not in None` raises TypeError
validate_config(cfg) ==
  IF cfg.source = "none" THEN "TypeError"
  ELSE IF RequiredKeys \subseteq cfg.keys THEN "none"
  ELSE "ValueError"

\* Config.__init__ (config.py:14-18)
Config(file, env) ==
  LET cfg == load_config(file, env)
  IN [raised |-> validate_config(cfg), config |-> cfg]

Commands == {"process", "test"}
StoreStates == {"ok", "unreachable"}

\* the start of a command: an exception of Config() leaves the import and
\* ends the interpreter with status 1; an exception of the constructor of
\* the DocumentProcessor or the RAGEngine is caught by the command, which
\* exits with 1 (main.py:46-49,93-96,139-144); otherwise the command goes on
\* to its work under the configuration
startup(file, env, command, store) ==
  LET c == Config(file, env) IN
  IF c.raised # "none"
  THEN [raised |-> c.raised, config |-> c.config, exit |-> 1,
        proceeds |-> FALSE]
  ELSE IF store = "unreachable"
  THEN [raised |-> "none", config |-> c.config, exit |-> ExitCode(FALSE),
        proceeds |-> FALSE]
  ELSE [raised |-> "none", config |-> c.config, exit |-> -1,
        proceeds |-> TRUE]

InitStartup ==
  /\ chunk_size \in {MaxChunkSize}
  /\ chunk_overlap \in {0}
  /\ IndexIdle
  /\ collection = <<>>
  /\ next_uuid = 1
  /\ run_base = 0
  /\ seg_call = NoSegCall
  /\ query_call = NoQueryCall
  /\ exit_code = -1
  /\ status_call = NoStatusCall
  /\ clean_call = NoCleanCall
  /\ crawl = NoCrawl
  /\ \E file \in ConfigFiles, env \in SUBSET EnvSections,
        command \in Commands, store \in StoreStates :
       config_call = [called |-> FALSE, file |-> file, env |-> env,
                      command |-> command, store |-> store]

Startup ==
  /\ ~config_call.called
  /\ LET r == startup(config_call.file, config_call.env, config_call.command,
                      config_call.store)
     IN /\ config_call' = [called |-> TRUE, file |-> config_call.file,
                           env |-> config_call.env,
                           command |-> config_call.command,
                           store |-> config_call.store, raised |-> r.raised,
                           config |-> r.config, proceeds |-> r.proceeds]
        /\ exit_code' = r.exit
        /\ chunk_size' = IF r.proceeds THEN r.config.chunk_size
                         ELSE chunk_size
        /\ chunk_overlap' = IF r.proceeds THEN r.config.chunk_overlap
                            ELSE chunk_overlap
  /\ UNCHANGED <<indexVars, seg_call, query_call, status_call, clean_call, crawl>>

NextStartup == Startup

SpecStartup == InitStartup /\ [][NextStartup]_vars

(***************************************************************************)
(* Properties of the startup (SpecStartup).                                *)
(***************************************************************************)
\* a file that cannot be loaded, that lacks a required section, or whose
\* chunk_overlap is not below its chunk_size
ConfigurationFailure(file) ==
  \/ file.kind \in {"unreadable", "invalid_yaml", "empty"}
  \/ /\ file.kind = "mapping"
     /\ \/ file.keys # RequiredKeys
        \/ file.sizing[1] < 1
        \/ file.sizing[2] >= file.sizing[1]

\* C18: when the configuration fails or the store cannot be opened at
\* startup, the process ends with a non-zero exit status and does not go on
\* to index or to answer.
StartupFailureIsFatal ==
  (/\ config_call.called
   /\ \/ ConfigurationFailure(config_call.file)
      \/ config_call.store = "unreachable") =>
     /\ exit_code > 0
     /\ ~config_call.proceeds

(***************************************************************************)
(* The recursive crawl for document pages (SpecCrawl):                     *)
(* UniversityWebScraper.collect_document_pages_recursively.  A URL is the  *)
(* string the crawl requests, kept here by what the link filter reads off  *)
(* it (the two substrings) and the page it names.  One behaviour is one    *)
(* crawl from one start URL: its visited set is one object, created by the *)
(* outermost call and handed down by reference to every recursive call.    *)
(***************************************************************************)
MaxDepth == 3

Url(amb, bekanntmachungen, page) ==
  [amb |-> amb, bekanntmachungen |-> bekanntmachungen, page |-> page]

\* the pages of the site that the link filter lets the crawl follow
SiteUrls == {Url(TRUE, TRUE, 1), Url(TRUE, TRUE, 2), Url(TRUE, TRUE, 3)}

\* the test of line 114 on the joined URL, without its visited part
OnSite(full_url) == full_url.amb /\ full_url.bekanntmachungen

\* what a fetched page holds: its first h3 ("" when it has none), whether it
\* has a div#document-list, and the hrefs of its ul.categories-list in page
\* order (none when the list is absent); the last shape links to another
\* host and to another section of the same host
PageShapes ==
  { [h3 |-> "", document_list |-> TRUE, links |-> <<>>],
    [h3 |-> "Ordnungen", document_list |-> FALSE,
     links |-> <<Url(TRUE, TRUE, 2)>>],
    [h3 |-> "Satzungen", document_list |-> TRUE,
     links |-> <<Url(TRUE, TRUE, 1), Url(TRUE, TRUE, 3)>>],
    [h3 |-> "Archiv", document_list |-> FALSE,
     links |-> <<Url(TRUE, TRUE, 3), Url(TRUE, TRUE, 3)>>],
    [h3 |-> "", document_list |-> FALSE,
     links |-> <<Url(TRUE, TRUE, 2), Url(TRUE, TRUE, 3)>>],
    [h3 |-> "Fakultaet", document_list |-> TRUE,
     links |-> <<Url(FALSE, TRUE, 4), Url(TRUE, TRUE, 2),
                 Url(TRUE, FALSE, 5)>>] }

\* what self.session.get and the parse of one page can do: answer, raise a
\* RequestException (raise_for_status included), or raise anything else
FetchOutcomes == {"ok", "request_exception", "other_exception"}

\* one activation of the function: at its entry, or in its loop over links
Frame(url, depth, parent_path) ==
  [url |-> url, depth |-> depth, at |-> "entry", parent_path |-> parent_path,
   current_path |-> <<>>, links |-> <<>>, i |-> 1, document_pages |-> <<>>]

MarkVisitedNever(visited_urls, url) == visited_urls
\* visited_urls.add(start_url), line 92
MarkVisited(visited_urls, url) == visited_urls \cup {url}

\* the guard of line 90
CrawlRefuses(c, f) == f.depth >= c.max_depth \/ f.url \in c.visited_urls

\* the activation on top of the stack returns val: the outermost one ends
\* the crawl, any other hands val to the loop of its caller (lines 116-117)
CrawlReturns(c, val) ==
  IF Len(c.stack) = 1
    THEN [c EXCEPT !.pc = "done", !.stack = <<>>, !.result = val]
    ELSE LET caller == c.stack[Len(c.stack) - 1]
             back == [caller EXCEPT
                        !.document_pages = caller.document_pages \o val,
                        !.i = caller.i + 1]
         IN [c EXCEPT !.stack = SubSeq(c.stack, 1, Len(c.stack) - 2)
                                  \o <<back>>]

InitCrawl ==
  /\ chunk_size = DefaultChunkSize
  /\ chunk_overlap = DefaultChunkOverlap
  /\ collection = <<>>
  /\ next_uuid = 1
  /\ pc = "idle"
  /\ pdf_files = <<>>
  /\ doc_i = 1
  /\ segments = <<>>
  /\ seg_i = 1
  /\ total_segments = 0
  /\ outcomes = <<>>
  /\ doc_base = 0
  /\ faults = 0
  /\ log = <<>>
  /\ run_base = 0
  /\ seg_call = NoSegCall
  /\ query_call = NoQueryCall
  /\ exit_code = -1
  /\ status_call = NoStatusCall
  /\ clean_call = NoCleanCall
  /\ config_call = NoConfigCall
  /\ \E web \in [SiteUrls -> PageShapes], max_depth \in 0..MaxDepth :
       crawl = [pc |-> "running",
                web |-> web,
                max_depth |-> max_depth,
                visited_urls |-> {},
                stack |-> <<Frame(Url(TRUE, TRUE, 1), 0, <<>>)>>,
                fetched |-> <<>>,
                fetch_faults |-> 0,
                result |-> <<>>]

\* lines 86-108 of the activation on top of the stack: the guard, the mark,
\* the fetch and what the page yields before its links are walked
CrawlEnter ==
  /\ crawl.pc = "running"
  /\ LET f == crawl.stack[Len(crawl.stack)] IN
     /\ f.at = "entry"
     /\ IF CrawlRefuses(crawl, f)
          THEN crawl' = CrawlReturns(crawl, <<>>)
          ELSE \E outcome \in FetchOutcomes :
            /\ outcome # "ok" => crawl.fetch_faults < MaxFaults
            /\ LET marked ==
                     [crawl EXCEPT
                        !.visited_urls = MarkVisited(crawl.visited_urls, f.url),
                        !.fetched = Append(crawl.fetched,
                                       [url |-> f.url, depth |-> f.depth]),
                        !.fetch_faults = IF outcome = "ok" THEN @ ELSE @ + 1]
                   page == crawl.web[f.url]
                   current_path == IF page.h3 # ""
                                     THEN Append(f.parent_path, page.h3)
                                     ELSE f.parent_path
                   walking ==
                     [f EXCEPT
                        !.at = "loop",
                        !.current_path = current_path,
                        !.document_pages =
                           IF page.document_list
                             THEN <<[url |-> f.url, path |-> current_path]>>
                             ELSE <<>>,
                        !.links = IF f.depth < crawl.max_depth
                                    THEN page.links ELSE <<>>]
               IN crawl' =
                    CASE outcome = "ok" ->
                           [marked EXCEPT !.stack[Len(crawl.stack)] = walking]
                      [] outcome = "request_exception" ->
                           CrawlReturns(marked, <<>>)
                      [] OTHER ->
                           [marked EXCEPT !.pc = "raised", !.stack = <<>>]
  /\ UNCHANGED <<chunk_size, chunk_overlap, indexVars, seg_call, query_call,
                 exit_code, status_call, clean_call, config_call>>

\* lines 112-116 for one link: the filter, then the recursive call one level
\* deeper with the same visited set and this page's path
CrawlLink ==
  /\ crawl.pc = "running"
  /\ LET top == Len(crawl.stack)
         f == crawl.stack[top] IN
     /\ f.at = "loop"
     /\ f.i <= Len(f.links)
     /\ LET full_url == f.links[f.i] IN
        crawl' = IF OnSite(full_url) /\ full_url \notin crawl.visited_urls
                   THEN [crawl EXCEPT
                           !.stack = Append(crawl.stack,
                                       Frame(full_url, f.depth + 1,
                                             f.current_path))]
                   ELSE [crawl EXCEPT !.stack[top].i = f.i + 1]
  /\ UNCHANGED <<chunk_size, chunk_overlap, indexVars, seg_call, query_call,
                 exit_code, status_call, clean_call, config_call>>

\* line 118: the links are walked, the activation returns what it collected
CrawlReturn ==
  /\ crawl.pc = "running"
  /\ LET f == crawl.stack[Len(crawl.stack)] IN
     /\ f.at = "loop"
     /\ f.i > Len(f.links)
     /\ crawl' = CrawlReturns(crawl, f.document_pages)
  /\ UNCHANGED <<chunk_size, chunk_overlap, indexVars, seg_call, query_call,
                 exit_code, status_call, clean_call, config_call>>

NextCrawl ==
  \/ CrawlEnter
  \/ CrawlLink
  \/ CrawlReturn

SpecCrawl == InitCrawl /\ [][NextCrawl]_vars

\* the interpreter runs the call to its end: a step that can be taken is taken
FairSpecCrawl == SpecCrawl /\ WF_vars(NextCrawl)

(***************************************************************************)
(* Properties of the crawl (FairSpecCrawl).                                *)
(***************************************************************************)
FetchedOnce ==
  \A i, j \in DOMAIN crawl.fetched :
    i # j => crawl.fetched[i].url # crawl.fetched[j].url

FetchedAboveMaxDepth ==
  \A i \in DOMAIN crawl.fetched : crawl.fetched[i].depth < crawl.max_depth

CrawlEnded == crawl.pc \in {"done", "raised"}

\* C30: within one crawl no URL is fetched twice and no page is fetched at
\* depth max_depth or deeper, and the crawl ends on every link graph, cyclic
\* ones included.
CrawlFetchesOnceAndEnds ==
  /\ [](FetchedOnce /\ FetchedAboveMaxDepth)
  /\ <>CrawlEnded

\* a finished crawl of a graph with a cycle through the start page: a fetched
\* page links back to the start, and a followable link of a page fetched at
\* the last allowed depth was left unfetched
CrawlFetchesOnceAndEndsWitness ==
  /\ crawl.pc = "done"
  /\ LET start == Url(TRUE, TRUE, 1)
         FetchedUrls == {crawl.fetched[i].url : i \in DOMAIN crawl.fetched}
         LinksOf(u) == {crawl.web[u].links[k] :
                          k \in DOMAIN crawl.web[u].links}
     IN /\ \E u \in FetchedUrls \ {start} : start \in LinksOf(u)
        /\ \E i \in DOMAIN crawl.fetched :
             /\ crawl.fetched[i].depth = crawl.max_depth - 1
             /\ \E w \in LinksOf(crawl.fetched[i].url) :
                  OnSite(w) /\ w \notin FetchedUrls

====
